---- MODULE Spec2Model ----
(***************************************************************************)
(* Dog tracker firmware (ESP32 sketch): the geofence-driven tracking       *)
(* session, the Wi-Fi role switching and the GPX track writer, as one      *)
(* state machine.  One action per handler of the cooperative loop: setup,  *)
(* a loop iteration that processes a position update, the web handlers     *)
(* /toggleTracking, /toggleAutoTrack and /saveWifi, and the passing of     *)
(* time in loop iterations that have nothing to do.                        *)
(*                                                                         *)
(* Modelling decisions:                                                    *)
(*  - Positions lie on one meridian and are integers, in metres; the       *)
(*    great-circle distance of two such points is the absolute difference. *)
(*    Distances are in metres (triggerRadiusKm = 0.1 km is 100 m, the      *)
(*    literal 0.005 km is 5 m).                                            *)
(*  - millis() and the time stamps taken from it appear as ages            *)
(*    (millis() - stamp).  The code only compares an age against a         *)
(*    constant, so an age saturates just beyond that constant.             *)
(*  - A handler is one atomic action; a handler is a function from the     *)
(*    record of all variables to the record after it, written in the order *)
(*    of the statements of the code.  The outcomes the environment decides *)
(*    (connect succeeds or times out, file system mounts, file opens) are  *)
(*    parameters of the action.                                            *)
(*  - History variables (sinceRole, sinceFix, streak, ex, stream, ev)      *)
(*    observe the run; no handler reads them to decide anything.           *)
(*  - Under SpecWait a handler that makes a connect attempt takes several  *)
(*    steps: one up to the start of the wait, one for each delay(500) of   *)
(*    the wait, one from the end of the wait to the end of the handler.    *)
(***************************************************************************)
EXTENDS Integers, Sequences, FiniteSets, TLC

\* ------------------------------------------------------------ constants
modeSwitchInterval == 15000
logInterval == 1000
maxStationConnectAttempts == 3
triggerRadiusM == 100
minMoveM == 5
connectTimeout == 10000
saveWifiDelay == 3000
stationSwitchDelay == 1000
apSwitchDelay == 500
connectPollDelay == 500

\* ------------------------------------------------------------ bounds
\* pointCount never exceeds MaxPoints (a fix that would append beyond it is
\* not taken).
MaxPoints == 3
\* The history counters of an excursion and of a stream stop counting here.
ExCap == 3
StreamCap == 12
\* The period of the fixes of the stream scenario, and their displacement.
StreamPeriod == 100
StreamMove == 1
\* elevationGain never exceeds MaxGain (a fix that would raise it beyond is
\* not taken).
MaxGain == 2
\* gps.date and gps.time advance up to MaxStamp half minutes.
MaxStamp == 3

\* ------------------------------------------------------------ input sets
Ssids == {"", "net"}
Passwords == {"", "key"}
Positions == {0, 100, 150}
Steps == {5000}
ConnectDurations == {1000}
\* Altitude in metres and speed in km/h of a fix.
Altitudes == {0}
Speeds == {0}
\* The fine-grained scenario: fixes StreamPeriod ms and StreamMove m apart.
FinePositions == 101 .. 108
FineSteps == {StreamPeriod}
\* The statistics scenario: fixes of varying altitude and speed.
StatAltitudes == {0, 1}
\* The scenario of the wait: fixes at home and outside the geofence.
WaitPositions == {0, 150}
\* The configuration scenario: fixes at two places, each a possible home.
ConfigPositions == {0, 150}
\* The scenario of the settled device: fixes inside and outside the geofence.
LivePositions == {0, 150}
\* Latitudes and longitudes in degrees of the points whose distance is computed.
GridLats == {-60, 0, 60}
GridLons == {-180, -120, -60, 0, 60, 120, 180}
StatSpeeds == {0, 1, 2}

VARIABLES
  pc,                      \* "boot", "running", "halted" (setup gave up)
  prefs,                   \* Preferences: [ssid, pass, homeLat]
  wifiSsid, wifiPassword,
  wifiConnected, inAPMode,
  stationConnectAttempts, stationConnectFailure,
  sinceModeSwitch,         \* millis() - lastModeSwitchTime
  radio,                   \* WiFi.mode(): "NULL", "STA", "AP"
  linkUp,                  \* WiFi.status() == WL_CONNECTED
  homeZoneLat,
  gpsLat, gpsValid,        \* gps.location
  isTracking, hasLeftHome, autoTracking,
  gpxOpen,                 \* gpxFile is a valid handle
  gpxContent,              \* the lines and records of the file behind it
  gpsTime,                 \* gps.date and gps.time in half minutes; 0: none
                           \* decoded yet (advances under SpecFiles)
  files,                   \* the names of the track files on the flash; at
                           \* power-on it holds the track of one earlier
                           \* session, begun with no time decoded
  totalDistance, pointCount,
  maxSpeed, elevationGain,
  avgSpeed,                \* its sign: "zero" or "positive"
  lastLat, lastAlt,
  sinceLog,                \* millis() - lastLogTime
  attempt,                 \* << >>, or the one connect attempt whose wait
                           \* the loop task is in (used under SpecWait)
  sinceRole,               \* history: time since the last role-affecting action
  sinceFix,                \* history: time since the last position update
  streak,                  \* history: timed-out connect attempts in a row
  ex,                      \* history: the current excursion
  stream,                  \* history: the current stream of fixes
  probe,                   \* two points and the distances computed for them
                           \* (used under SpecDistance)
  stay,                    \* environment: where the device keeps itself from
                           \* now on: "free", "home", "away" (used under SpecLive)
  ev                       \* history: what the last step did

vars == << pc, prefs, wifiSsid, wifiPassword, wifiConnected, inAPMode,
           stationConnectAttempts, stationConnectFailure, sinceModeSwitch,
           radio, linkUp, homeZoneLat, gpsLat, gpsValid, isTracking, hasLeftHome,
           autoTracking, gpxOpen, gpxContent, totalDistance, pointCount, maxSpeed,
           elevationGain, avgSpeed, lastLat, lastAlt, attempt,
           sinceLog, sinceRole, sinceFix, streak, ex, stream, probe, stay,
           gpsTime, files, ev >>

\* The record of all variables, and its assignment to the next state.
Cur ==
  [ pc |-> pc, prefs |-> prefs, wifiSsid |-> wifiSsid,
    wifiPassword |-> wifiPassword, wifiConnected |-> wifiConnected,
    inAPMode |-> inAPMode, stationConnectAttempts |-> stationConnectAttempts,
    stationConnectFailure |-> stationConnectFailure,
    sinceModeSwitch |-> sinceModeSwitch, radio |-> radio, linkUp |-> linkUp,
    homeZoneLat |-> homeZoneLat, gpsLat |-> gpsLat, gpsValid |-> gpsValid,
    isTracking |-> isTracking, hasLeftHome |-> hasLeftHome,
    autoTracking |-> autoTracking, gpxOpen |-> gpxOpen,
    gpxContent |-> gpxContent,
    totalDistance |-> totalDistance, pointCount |-> pointCount,
    maxSpeed |-> maxSpeed, elevationGain |-> elevationGain,
    avgSpeed |-> avgSpeed, lastLat |-> lastLat, lastAlt |-> lastAlt,
    attempt |-> attempt, sinceLog |-> sinceLog, sinceRole |-> sinceRole,
    sinceFix |-> sinceFix, streak |-> streak, ex |-> ex, stream |-> stream,
    probe |-> probe, stay |-> stay, gpsTime |-> gpsTime, files |-> files,
    ev |-> ev ]

Assign(s) ==
  /\ pc' = s.pc
  /\ prefs' = s.prefs
  /\ wifiSsid' = s.wifiSsid
  /\ wifiPassword' = s.wifiPassword
  /\ wifiConnected' = s.wifiConnected
  /\ inAPMode' = s.inAPMode
  /\ stationConnectAttempts' = s.stationConnectAttempts
  /\ stationConnectFailure' = s.stationConnectFailure
  /\ sinceModeSwitch' = s.sinceModeSwitch
  /\ radio' = s.radio
  /\ linkUp' = s.linkUp
  /\ homeZoneLat' = s.homeZoneLat
  /\ gpsLat' = s.gpsLat
  /\ gpsValid' = s.gpsValid
  /\ isTracking' = s.isTracking
  /\ hasLeftHome' = s.hasLeftHome
  /\ autoTracking' = s.autoTracking
  /\ gpxOpen' = s.gpxOpen
  /\ gpxContent' = s.gpxContent
  /\ totalDistance' = s.totalDistance
  /\ pointCount' = s.pointCount
  /\ maxSpeed' = s.maxSpeed
  /\ elevationGain' = s.elevationGain
  /\ avgSpeed' = s.avgSpeed
  /\ lastLat' = s.lastLat
  /\ lastAlt' = s.lastAlt
  /\ attempt' = s.attempt
  /\ sinceLog' = s.sinceLog
  /\ sinceRole' = s.sinceRole
  /\ sinceFix' = s.sinceFix
  /\ streak' = s.streak
  /\ ex' = s.ex
  /\ stream' = s.stream
  /\ probe' = s.probe
  /\ gpsTime' = s.gpsTime
  /\ files' = s.files
  /\ stay' = s.stay
  /\ ev' = s.ev

\* ------------------------------------------------------------ helpers
Min(a, b) == IF a <= b THEN a ELSE b

\* Ages saturate just beyond the constant the code compares them with.
SatSwitch(a) == Min(a, modeSwitchInterval)
SatLog(a) == Min(a, logInterval + 1)
SatFix(a) == Min(a, StreamPeriod + 1)

\* delay(ms), and the time a blocking wait takes: every age grows.
delay(s, ms) ==
  [s EXCEPT !.sinceModeSwitch = SatSwitch(@ + ms),
            !.sinceLog = SatLog(@ + ms),
            !.sinceRole = SatSwitch(@ + ms),
            !.sinceFix = SatFix(@ + ms)]

\* Great-circle distance of two points of one meridian, in metres.
getDistance(lat1, lat2) == IF lat1 >= lat2 THEN lat1 - lat2 ELSE lat2 - lat1

\* getDistance itself, on the points whose latitude and longitude are
\* multiples of 60 degrees: there the haversine is a ratio of small integers.
R == 6371

\* 4 * sin(d/2) * sin(d/2) for an angle of d degrees.
sinHalfSq4(d) ==
  CASE d % 360 = 0 -> 0
    [] d % 360 \in {60, 300} -> 1
    [] d % 360 \in {120, 240} -> 3
    [] d % 360 = 180 -> 4

\* 2 * cos(radians(lat)).
cos2(lat) ==
  CASE lat % 360 = 0 -> 2
    [] lat % 360 \in {60, 300} -> 1
    [] lat % 360 \in {120, 240} -> -1
    [] lat % 360 = 180 -> -2

\* 1000 * 2 * atan2(sqrt(a), sqrt(1 - a)) for a = 0/16, 1/16, ... 16/16,
\* rounded down.
arc1000 ==
  << 0, 505, 722, 895, 1047, 1186, 1318, 1445, 1570, 1696, 1823, 1955, 2094,
     2245, 2418, 2636, 3141 >>

\* The distance with the latitude of the first point left out of dLat.
getDistanceKm_LatNotSubtracted(lat1, lon1, lat2, lon2) ==
  LET dLat == lat2
      dLon == lon2 - lon1
      a16 == 4 * sinHalfSq4(dLat) + cos2(lat1) * cos2(lat2) * sinHalfSq4(dLon)
  IN (R * arc1000[a16 + 1]) \div 1000

\* getDistance(lat1, lon1, lat2, lon2), in whole kilometres; a16 is 16 * a.
getDistanceKm(lat1, lon1, lat2, lon2) ==
  LET dLat == lat2 - lat1
      dLon == lon2 - lon1
      a16 == 4 * sinHalfSq4(dLat) + cos2(lat1) * cos2(lat2) * sinHalfSq4(dLon)
  IN (R * arc1000[a16 + 1]) \div 1000

\* No distance is asked for.
NoProbe ==
  [ lat1 |-> 0, lon1 |-> 0, lat2 |-> 0, lon2 |-> 0, done |-> FALSE,
    ab |-> 0, ba |-> 0, aa |-> 0, bb |-> 0 ]

CredentialsAbsent(s) == s.wifiSsid = "" \/ s.wifiPassword = ""

\* What a step did, as far as the history records it.
NewEv(kind) ==
  [ kind |-> kind,
    roles |-> << >>,      \* the role-affecting actions of the step, in order
    dist |-> 0,           \* distanceFromHome of the position update
    dwell |-> FALSE,      \* updateWiFiMode got past the dwell test
    auto |-> FALSE,       \* autoTracking when the update was processed
    wasTracking |-> FALSE,\* isTracking when the step began
    starts |-> 0,         \* Idle -> Recording transitions
    created |-> "no",     \* createNewGpx: "no", "ok", "failed"
    closed |-> FALSE,     \* the closing tags were written and the file closed
    file |-> << >>,       \* the content of the file that was closed
    elapsed |-> 0,        \* millis() - lastLogTime of an accepted point
    inc |-> 0,            \* incDistance of an accepted point
    speed |-> 0,          \* currentSpeed of an accepted point
    appended |-> FALSE ]  \* a point record was written

\* History: a role-affecting action takes place now.
NoteRole(s, what, by) ==
  [s EXCEPT !.ev.roles = Append(@, [ what |-> what, by |-> by,
                                     gap |-> s.sinceRole,
                                     lockout |-> s.stationConnectFailure,
                                     noCreds |-> CredentialsAbsent(s) ]),
            !.sinceRole = 0]

\* ------------------------------------------------------------ Wi-Fi
startAccessPoint(s, by) ==
  [NoteRole(s, "ap", by) EXCEPT !.sinceModeSwitch = 0,
                                !.radio = "AP",
                                !.linkUp = FALSE,
                                !.wifiConnected = TRUE,
                                !.inAPMode = TRUE]

\* A timed-out attempt that stops one short of the limit too.
connectFailed_OffByOne(s) ==
  LET s3 == [s EXCEPT !.stationConnectAttempts = (@ + 1) % 256,
                      !.streak = Min(@ + 1, maxStationConnectAttempts + 1)]
  IN IF s3.stationConnectAttempts > maxStationConnectAttempts
     THEN [startAccessPoint([s3 EXCEPT !.stationConnectFailure = TRUE],
                            "fallback")
             EXCEPT !.stationConnectAttempts = 0]
     ELSE s3

\* A third timeout that sets the lockout and starts no access point.
connectFailed_LockoutWithoutAP(s) ==
  LET s3 == [s EXCEPT !.stationConnectAttempts = (@ + 1) % 256,
                      !.streak = Min(@ + 1, maxStationConnectAttempts + 1)]
  IN IF s3.stationConnectAttempts >= maxStationConnectAttempts
     THEN [s3 EXCEPT !.stationConnectFailure = TRUE,
                     !.stationConnectAttempts = 0]
     ELSE s3

\* The else branch of startClientWiFi: the wait ran to its timeout.
connectFailed(s) ==
  LET s3 == [s EXCEPT !.stationConnectAttempts = (@ + 1) % 256,
                      !.streak = Min(@ + 1, maxStationConnectAttempts + 1)]
  IN IF s3.stationConnectAttempts >= maxStationConnectAttempts
     THEN [startAccessPoint([s3 EXCEPT !.stationConnectFailure = TRUE],
                            "fallback")
             EXCEPT !.stationConnectAttempts = 0]
     ELSE s3

\* startClientWiFi up to its wait: WiFi.mode(WIFI_STA) and WiFi.begin.
beginConnect(s, by) ==
  LET s0 == [NoteRole(s, "connect", by) EXCEPT
               !.streak = IF s.stationConnectAttempts = 0
                             /\ ~s.stationConnectFailure THEN 0 ELSE @]
  IN [s0 EXCEPT !.sinceModeSwitch = 0, !.radio = "STA", !.linkUp = FALSE]

\* The time the while loop of startClientWiFi takes.
waitTime(ok, dur) == IF ok THEN dur ELSE connectTimeout

\* The attempt whose success leaves the failure count as it is.
startClientWiFi_KeepsCount(s, by, ok, dur) ==
  LET s1 == beginConnect(s, by)
      s2 == [delay(s1, waitTime(ok, dur)) EXCEPT !.linkUp = ok]
  IN IF ok
     THEN [s2 EXCEPT !.wifiConnected = TRUE,
                     !.inAPMode = FALSE,
                     !.stationConnectFailure = FALSE,
                     !.streak = 0]
     ELSE connectFailed(s2)

\* ok: WiFi.status() becomes WL_CONNECTED after dur ms; otherwise the wait
\* runs to its timeout.  The streak of the history begins anew at an attempt
\* made with failure count 0 and no lockout.
startClientWiFi(s, by, ok, dur) ==
  LET s1 == beginConnect(s, by)
      s2 == [delay(s1, waitTime(ok, dur)) EXCEPT !.linkUp = ok]
  IN IF ok
     THEN [s2 EXCEPT !.wifiConnected = TRUE,
                     !.inAPMode = FALSE,
                     !.stationConnectAttempts = 0,
                     !.stationConnectFailure = FALSE,
                     !.streak = 0]
     ELSE connectFailed(s2)

\* Dropping the connection that clears the connected flag as well.
wifiDisconnect_ClearsConnected(s) ==
  [s EXCEPT !.radio = IF @ = "STA" THEN "NULL" ELSE @, !.linkUp = FALSE,
            !.wifiConnected = FALSE]

\* WiFi.disconnect(true): the station interface is switched off.
wifiDisconnect(s) ==
  [s EXCEPT !.radio = IF @ = "STA" THEN "NULL" ELSE @, !.linkUp = FALSE]

\* The at-home rule without its tests of the lockout flag.
connectAtHome_IgnoresLockout(t, ok, dur) ==
  IF t.inAPMode
  THEN startClientWiFi(delay(wifiDisconnect(t), stationSwitchDelay),
                       "eval", ok, dur)
  ELSE IF ~t.wifiConnected
  THEN startClientWiFi(t, "eval", ok, dur)
  ELSE t

\* if (distanceFromHome < triggerRadiusKm) { ... }
connectAtHome(t, ok, dur) ==
  IF t.inAPMode /\ ~t.stationConnectFailure
  THEN startClientWiFi(delay(wifiDisconnect(t), stationSwitchDelay),
                       "eval", ok, dur)
  ELSE IF ~t.wifiConnected /\ ~t.stationConnectFailure
  THEN startClientWiFi(t, "eval", ok, dur)
  ELSE t

\* The away rule that leaves a client a client.
standaloneAway_KeepsClient(t) == t

\* else { if (!inAPMode) { ... } }
standaloneAway(t) ==
  IF ~t.inAPMode
  THEN startAccessPoint(IF t.wifiConnected /\ ~t.inAPMode
                        THEN delay(wifiDisconnect(t), apSwitchDelay)
                        ELSE t, "eval")
  ELSE t

\* The evaluation with the geofence edge counted as at home.
evaluateRole_EdgeIsHome(s, distanceFromHome, ok, dur) ==
  LET t == [s EXCEPT !.ev.dwell = TRUE] IN
    IF CredentialsAbsent(t)
    THEN IF ~t.inAPMode THEN startAccessPoint(t, "eval") ELSE t
    ELSE IF distanceFromHome <= triggerRadiusM
    THEN connectAtHome(t, ok, dur)
    ELSE standaloneAway(t)

\* updateWiFiMode past its dwell test.
evaluateRole(s, distanceFromHome, ok, dur) ==
  LET t == [s EXCEPT !.ev.dwell = TRUE] IN
    IF CredentialsAbsent(t)
    THEN IF ~t.inAPMode THEN startAccessPoint(t, "eval") ELSE t
    ELSE IF distanceFromHome < triggerRadiusM
    THEN connectAtHome(t, ok, dur)
    ELSE standaloneAway(t)

\* updateWiFiMode without its dwell test.
updateWiFiMode_NoDwell(s, distanceFromHome, ok, dur) ==
  evaluateRole(s, distanceFromHome, ok, dur)

\* updateWiFiMode with half the dwell interval.
updateWiFiMode_HalfDwell(s, distanceFromHome, ok, dur) ==
  IF 2 * s.sinceModeSwitch < modeSwitchInterval THEN s
  ELSE evaluateRole(s, distanceFromHome, ok, dur)

updateWiFiMode(s, distanceFromHome, ok, dur) ==
  IF s.sinceModeSwitch < modeSwitchInterval THEN s
  ELSE evaluateRole(s, distanceFromHome, ok, dur)

\* ------------------------------------------------------------ track file
\* A file is a sequence of lines; a point record, which writeGpxPoint
\* prints in one piece, counts as one.  A print to a valid handle succeeds.
GpxHeader == << "<?xml>", "<gpx>", "<trk>", "<trkseg>" >>
GpxClosingTags == << "</trkseg>", "</trk>", "</gpx>" >>
GpxPoint == "<trkpt>"

\* sprintf(filename, "Track_%02d.%02d.%04d-%02d-%02d.gpx", ...): the name
\* holds day, month, year, hour and minute, not the seconds; with nothing
\* decoded every field is 0.
Filename(t) == << "Track", (t + 1) \div 2 >>

\* createNewGpx that prints no header.
createNewGpx_NoHeader(s, fsOk) ==
  IF fsOk
  THEN [s EXCEPT !.gpxOpen = TRUE, !.gpxContent = << >>,
                 !.files = @ \cup {Filename(s.gpsTime)},
                 !.ev.created = "ok"]
  ELSE [s EXCEPT !.gpxOpen = FALSE, !.gpxContent = << >>,
                 !.ev.created = "failed"]

\* fsOk: LittleFS.open(name, "w") succeeds; the file is then empty.
createNewGpx(s, fsOk) ==
  IF fsOk
  THEN [s EXCEPT !.gpxOpen = TRUE, !.gpxContent = GpxHeader,
                 !.files = @ \cup {Filename(s.gpsTime)},
                 !.ev.created = "ok"]
  ELSE [s EXCEPT !.gpxOpen = FALSE, !.gpxContent = << >>,
                 !.ev.created = "failed"]

\* The closing tags and close() without the test of the handle.
closeGpx_Unguarded(s) ==
  [s EXCEPT !.gpxOpen = FALSE,
            !.gpxContent = << >>,
            !.ev.closed = TRUE,
            !.ev.file = s.gpxContent \o GpxClosingTags]

\* The closing tags and close(), under if (gpxFile).
closeGpx(s) ==
  IF s.gpxOpen
  THEN [s EXCEPT !.gpxOpen = FALSE,
                 !.gpxContent = << >>,
                 !.ev.closed = TRUE,
                 !.ev.file = s.gpxContent \o GpxClosingTags]
  ELSE s

\* writeGpxPoint that gives the session up when it has no handle.
writeGpxPoint_AbortsSession(s) ==
  IF s.gpxOpen
  THEN [s EXCEPT !.gpxContent = Append(@, GpxPoint), !.ev.appended = TRUE]
  ELSE [s EXCEPT !.isTracking = FALSE, !.hasLeftHome = FALSE]

\* if (gpxFile) { ... }: the record is printed and flushed.
writeGpxPoint(s) ==
  IF s.gpxOpen
  THEN [s EXCEPT !.gpxContent = Append(@, GpxPoint), !.ev.appended = TRUE]
  ELSE s

\* ------------------------------------------------------------ loop
\* The auto start that counts the geofence edge as outside.
autoStart_EdgeStarts(s, currentLat, currentAlt, distanceFromHome, fsOk) ==
  IF distanceFromHome >= triggerRadiusM /\ ~s.hasLeftHome
  THEN [createNewGpx([s EXCEPT !.hasLeftHome = TRUE,
                               !.isTracking = TRUE,
                               !.ev.starts = @ + 1], fsOk)
          EXCEPT !.lastLat = currentLat,
                 !.lastAlt = currentAlt,
                 !.sinceLog = 0,
                 !.pointCount = 1]
  ELSE s

\* The auto start without its test of hasLeftHome.
autoStart_EveryCycle(s, currentLat, currentAlt, distanceFromHome, fsOk) ==
  IF distanceFromHome > triggerRadiusM
  THEN [createNewGpx([s EXCEPT !.hasLeftHome = TRUE,
                               !.isTracking = TRUE,
                               !.ev.starts = @ + 1], fsOk)
          EXCEPT !.lastLat = currentLat,
                 !.lastAlt = currentAlt,
                 !.sinceLog = 0,
                 !.pointCount = 1]
  ELSE s

\* if (distanceFromHome > triggerRadiusKm && !hasLeftHome) { ... }
autoStart(s, currentLat, currentAlt, distanceFromHome, fsOk) ==
  IF distanceFromHome > triggerRadiusM /\ ~s.hasLeftHome
  THEN [createNewGpx([s EXCEPT !.hasLeftHome = TRUE,
                               !.isTracking = TRUE,
                               !.ev.starts = @ + 1], fsOk)
          EXCEPT !.lastLat = currentLat,
                 !.lastAlt = currentAlt,
                 !.sinceLog = 0,
                 !.pointCount = 1]
  ELSE s

\* The auto stop without its reset of the counters.
autoStop_KeepsCounters(s, distanceFromHome) ==
  IF distanceFromHome < triggerRadiusM /\ s.isTracking
  THEN [closeGpx(s) EXCEPT !.isTracking = FALSE,
                           !.hasLeftHome = FALSE]
  ELSE s

\* The auto stop that leaves hasLeftHome set.
autoStop_KeepsHasLeftHome(s, distanceFromHome) ==
  IF distanceFromHome < triggerRadiusM /\ s.isTracking
  THEN [closeGpx(s) EXCEPT !.isTracking = FALSE,
                           !.totalDistance = 0,
                           !.pointCount = 0]
  ELSE s

\* if (distanceFromHome < triggerRadiusKm && isTracking) { ... }
autoStop(s, distanceFromHome) ==
  IF distanceFromHome < triggerRadiusM /\ s.isTracking
  THEN [closeGpx(s) EXCEPT !.isTracking = FALSE,
                           !.hasLeftHome = FALSE,
                           !.totalDistance = 0,
                           !.pointCount = 0]
  ELSE s

\* The auto start and the auto stop without the test of autoTracking.
autoTrack_IgnoresFlag(s, currentLat, currentAlt, distanceFromHome, fsOk) ==
  autoStop(autoStart(s, currentLat, currentAlt, distanceFromHome, fsOk),
           distanceFromHome)

\* if (autoTracking) { ... }
autoTrack(s, currentLat, currentAlt, distanceFromHome, fsOk) ==
  IF s.autoTracking
  THEN autoStop(autoStart(s, currentLat, currentAlt, distanceFromHome, fsOk),
                distanceFromHome)
  ELSE s

\* The statistics in which a descent is subtracted.
accumulate_SubtractsDescents(s, incDistance, currentAlt, currentSpeed) ==
  [s EXCEPT !.totalDistance = @ + incDistance,
            !.maxSpeed = IF currentSpeed > @ THEN currentSpeed ELSE @,
            !.avgSpeed = "positive",
            !.elevationGain = @ + (currentAlt - s.lastAlt)]

\* The statistics of an accepted point.  totalDistance is positive after
\* its increment and the elapsed time is not negative, so the quotient
\* avgSpeed is positive (or infinite).
accumulate(s, incDistance, currentAlt, currentSpeed) ==
  [s EXCEPT !.totalDistance = @ + incDistance,
            !.maxSpeed = IF currentSpeed > @ THEN currentSpeed ELSE @,
            !.avgSpeed = "positive",
            !.elevationGain = IF currentAlt > s.lastAlt
                              THEN @ + (currentAlt - s.lastAlt) ELSE @]

\* The logging block without its test of the log interval.
logPoint_NoInterval(s, currentLat, currentAlt, currentSpeed) ==
  LET incDistance == getDistance(s.lastLat, currentLat)
      t == [s EXCEPT !.ev.elapsed = s.sinceLog, !.ev.inc = incDistance,
                     !.ev.speed = currentSpeed]
  IN IF s.isTracking /\ incDistance > minMoveM
     THEN [writeGpxPoint(accumulate(t, incDistance, currentAlt, currentSpeed))
             EXCEPT !.lastLat = currentLat,
                    !.lastAlt = currentAlt,
                    !.sinceLog = 0,
                    !.pointCount = @ + 1]
     ELSE s

\* The logging block with inclusive thresholds.
logPoint_Inclusive(s, currentLat, currentAlt, currentSpeed) ==
  LET incDistance == getDistance(s.lastLat, currentLat)
      t == [s EXCEPT !.ev.elapsed = s.sinceLog, !.ev.inc = incDistance,
                     !.ev.speed = currentSpeed]
  IN IF s.isTracking /\ s.sinceLog >= logInterval /\ incDistance >= minMoveM
     THEN [writeGpxPoint(accumulate(t, incDistance, currentAlt, currentSpeed))
             EXCEPT !.lastLat = currentLat,
                    !.lastAlt = currentAlt,
                    !.sinceLog = 0,
                    !.pointCount = @ + 1]
     ELSE s

\* if (isTracking && (millis() - lastLogTime > logInterval)) { ... }
\* The history keeps the two tested values of an accepted point.
logPoint(s, currentLat, currentAlt, currentSpeed) ==
  LET incDistance == getDistance(s.lastLat, currentLat)
      t == [s EXCEPT !.ev.elapsed = s.sinceLog, !.ev.inc = incDistance,
                     !.ev.speed = currentSpeed]
  IN IF s.isTracking /\ s.sinceLog > logInterval /\ incDistance > minMoveM
     THEN [writeGpxPoint(accumulate(t, incDistance, currentAlt, currentSpeed))
             EXCEPT !.lastLat = currentLat,
                    !.lastAlt = currentAlt,
                    !.sinceLog = 0,
                    !.pointCount = @ + 1]
     ELSE s

\* History of the excursion: consecutive updates outside the geofence under
\* autoTracking, begun in Idle with hasLeftHome false.
NoteExcursion(s, before, distanceFromHome) ==
  IF distanceFromHome > triggerRadiusM /\ before.autoTracking
  THEN IF before.ex.on
       THEN [s EXCEPT !.ex.len = Min(@ + 1, ExCap),
                      !.ex.starts = Min(@ + s.ev.starts, 2),
                      !.ex.creates = Min(@ + (IF s.ev.created = "no" THEN 0 ELSE 1), 2)]
       ELSE IF ~before.isTracking /\ ~before.hasLeftHome
       THEN [s EXCEPT !.ex = [ on |-> TRUE, len |-> 1,
                               starts |-> s.ev.starts,
                               creates |-> IF s.ev.created = "no" THEN 0 ELSE 1 ]]
       ELSE s
  ELSE [s EXCEPT !.ex = [ on |-> FALSE, len |-> 0, starts |-> 0, creates |-> 0 ]]

\* History of the stream: it begins at the update that starts a session
\* automatically and lasts while every further update comes StreamPeriod ms
\* after the one before and StreamMove m from it.
NoteStream(s, before, currentLat) ==
  IF s.ev.starts > 0
  THEN [s EXCEPT !.stream = [ on |-> TRUE, len |-> 0, appends |-> 0 ]]
  ELSE IF /\ before.stream.on
          /\ s.isTracking
          /\ before.sinceFix = StreamPeriod
          /\ getDistance(before.gpsLat, currentLat) = StreamMove
  THEN [s EXCEPT !.stream.len = Min(@ + 1, StreamCap),
                 !.stream.appends = Min(@ + (IF s.ev.appended THEN 1 ELSE 0), 2)]
  ELSE [s EXCEPT !.stream = [ on |-> FALSE, len |-> 0, appends |-> 0 ]]

\* gps.location.isUpdated(): the fix is read; the history begins the step.
fixArrives(s, currentLat) ==
  [s EXCEPT !.ev = [NewEv("fix") EXCEPT
                      !.dist = getDistance(currentLat, s.homeZoneLat),
                      !.auto = s.autoTracking,
                      !.wasTracking = s.isTracking],
            !.gpsLat = currentLat,
            !.gpsValid = TRUE]

\* The body of if (gps.location.isUpdated()) { ... } for a fix at currentLat.
loopUpdate(s, currentLat, currentAlt, currentSpeed, ok, dur, fsOk) ==
  LET distanceFromHome == getDistance(currentLat, s.homeZoneLat)
      s0 == fixArrives(s, currentLat)
      s1 == updateWiFiMode(s0, distanceFromHome, ok, dur)
      s2 == autoTrack(s1, currentLat, currentAlt, distanceFromHome, fsOk)
      s3 == logPoint(s2, currentLat, currentAlt, currentSpeed)
      s4 == NoteStream(NoteExcursion(s3, s, distanceFromHome), s, currentLat)
  IN [s4 EXCEPT !.sinceFix = 0]

\* ------------------------------------------------------------ handlers
NoExcursion(s) ==
  [s EXCEPT !.ex = [ on |-> FALSE, len |-> 0, starts |-> 0, creates |-> 0 ],
            !.stream = [ on |-> FALSE, len |-> 0, appends |-> 0 ]]

\* The handler whose manual stop leaves the counters as they are.
toggleTracking_StopKeepsCounters(s, fsOk) ==
  LET s0 == NoExcursion([s EXCEPT !.ev = [NewEv("toggleTracking") EXCEPT
                                            !.wasTracking = s.isTracking,
                                            !.auto = s.autoTracking]])
  IN IF s0.isTracking
     THEN [closeGpx(s0) EXCEPT !.isTracking = FALSE,
                               !.hasLeftHome = FALSE]
     ELSE [createNewGpx([s0 EXCEPT !.isTracking = TRUE,
                                   !.hasLeftHome = TRUE,
                                   !.ev.starts = 1], fsOk)
             EXCEPT !.pointCount = 1]

\* The handler whose manual stop leaves hasLeftHome as it is.
toggleTracking_KeepsHasLeftHome(s, fsOk) ==
  LET s0 == NoExcursion([s EXCEPT !.ev = [NewEv("toggleTracking") EXCEPT
                                            !.wasTracking = s.isTracking,
                                            !.auto = s.autoTracking]])
  IN IF s0.isTracking
     THEN [closeGpx(s0) EXCEPT !.isTracking = FALSE,
                               !.totalDistance = 0,
                               !.pointCount = 0]
     ELSE [createNewGpx([s0 EXCEPT !.isTracking = TRUE,
                                   !.hasLeftHome = TRUE,
                                   !.ev.starts = 1], fsOk)
             EXCEPT !.pointCount = 1]

toggleTracking(s, fsOk) ==
  LET s0 == NoExcursion([s EXCEPT !.ev = [NewEv("toggleTracking") EXCEPT
                                            !.wasTracking = s.isTracking,
                                            !.auto = s.autoTracking]])
  IN IF s0.isTracking
     THEN [closeGpx(s0) EXCEPT !.isTracking = FALSE,
                               !.hasLeftHome = FALSE,
                               !.totalDistance = 0,
                               !.pointCount = 0]
     ELSE [createNewGpx([s0 EXCEPT !.isTracking = TRUE,
                                   !.hasLeftHome = TRUE,
                                   !.ev.starts = 1], fsOk)
             EXCEPT !.pointCount = 1]

toggleAutoTrack(s) ==
  NoExcursion([s EXCEPT !.ev = NewEv("toggleAutoTrack"),
                        !.autoTracking = ~@])

saveWiFiConfig(s) ==
  [s EXCEPT !.prefs.ssid = s.wifiSsid, !.prefs.pass = s.wifiPassword]

\* /saveWifi up to its choice between the two roles.
storeCredentials(s, ssid, pass) ==
  LET s0 == [s EXCEPT !.ev = NewEv("saveWifi"),
                      !.wifiSsid = ssid,
                      !.wifiPassword = pass]
  IN delay(saveWiFiConfig(s0), saveWifiDelay)

\* /saveWifi that starts a connect attempt whatever the new credentials.
saveWifi_AlwaysConnects(s, ssid, pass, ok, dur) ==
  startClientWiFi(storeCredentials(s, ssid, pass), "saveWifi", ok, dur)

\* /saveWifi that leaves the role alone within the dwell interval and under
\* lockout.
saveWifi_HonoursDwellAndLockout(s, ssid, pass, ok, dur) ==
  LET s1 == storeCredentials(s, ssid, pass)
  IN IF s1.sinceModeSwitch < modeSwitchInterval \/ s1.stationConnectFailure
     THEN s1
     ELSE IF ~CredentialsAbsent(s1)
     THEN startClientWiFi(s1, "saveWifi", ok, dur)
     ELSE startAccessPoint(s1, "saveWifi")

\* /saveWifi with both arguments present.
saveWifi(s, ssid, pass, ok, dur) ==
  LET s1 == storeCredentials(s, ssid, pass)
  IN IF ~CredentialsAbsent(s1)
     THEN startClientWiFi(s1, "saveWifi", ok, dur)
     ELSE startAccessPoint(s1, "saveWifi")

saveHomeConfig(s) ==
  [s EXCEPT !.prefs.homeLat = s.homeZoneLat]

\* /setHome that does not test the validity of the fix.
setHome_IgnoresValidity(s) ==
  saveHomeConfig([s EXCEPT !.ev = NewEv("setHome"),
                           !.homeZoneLat = s.gpsLat])

\* /setHome: gps.location.isValid() holds from the first fix on.
setHome(s) ==
  LET s0 == [s EXCEPT !.ev = NewEv("setHome")]
  IN IF s0.gpsValid
     THEN saveHomeConfig([s0 EXCEPT !.homeZoneLat = s0.gpsLat])
     ELSE s0

\* loadConfiguration that leaves the home location at its initializer.
loadConfiguration_NoHome(s) ==
  [s EXCEPT !.wifiSsid = s.prefs.ssid,
            !.wifiPassword = s.prefs.pass]

loadConfiguration(s) ==
  [s EXCEPT !.wifiSsid = s.prefs.ssid,
            !.wifiPassword = s.prefs.pass,
            !.homeZoneLat = s.prefs.homeLat]

\* mountOk: LittleFS.begin() succeeds; otherwise setup returns before it
\* starts the GPS port, the Wi-Fi and the web server.
setup(s, mountOk, ok, dur) ==
  LET s0 == loadConfiguration([s EXCEPT !.ev = NewEv("setup")])
  IN IF ~mountOk THEN [s0 EXCEPT !.pc = "halted"]
     ELSE [(IF CredentialsAbsent(s0)
            THEN startAccessPoint(s0, "setup")
            ELSE startClientWiFi(s0, "setup", ok, dur))
             EXCEPT !.pc = "running"]

\* Power is cycled (or the reset button pressed): every global variable is
\* back at its initializer, the handle of the track file is lost, the
\* Preferences stay.
powerOn(s) ==
  [s EXCEPT !.pc = "boot",
            !.wifiSsid = "", !.wifiPassword = "",
            !.wifiConnected = FALSE, !.inAPMode = FALSE,
            !.stationConnectAttempts = 0, !.stationConnectFailure = FALSE,
            !.sinceModeSwitch = 0, !.radio = "NULL", !.linkUp = FALSE,
            !.homeZoneLat = 0, !.gpsLat = 0, !.gpsValid = FALSE,
            !.isTracking = FALSE, !.hasLeftHome = FALSE,
            !.autoTracking = TRUE,
            !.gpxOpen = FALSE, !.gpxContent = << >>,
            !.totalDistance = 0, !.pointCount = 0,
            !.maxSpeed = 0, !.elevationGain = 0, !.avgSpeed = "zero",
            !.lastLat = 0, !.lastAlt = 0,
            !.gpsTime = 0,
            !.attempt = << >>,
            !.sinceLog = 0, !.sinceRole = modeSwitchInterval,
            !.sinceFix = StreamPeriod + 1, !.streak = 0,
            !.ex = [ on |-> FALSE, len |-> 0, starts |-> 0, creates |-> 0 ],
            !.stream = [ on |-> FALSE, len |-> 0, appends |-> 0 ],
            !.ev = NewEv("boot")]

\* ------------------------------------------------------------ actions
\* The device before setup.
DeviceInit ==
  /\ pc = "boot"
  /\ prefs \in [ssid : Ssids, pass : Passwords, homeLat : {0}]
  /\ wifiSsid = ""
  /\ wifiPassword = ""
  /\ wifiConnected = FALSE
  /\ inAPMode = FALSE
  /\ stationConnectAttempts = 0
  /\ stationConnectFailure = FALSE
  /\ sinceModeSwitch = 0
  /\ radio = "NULL"
  /\ linkUp = FALSE
  /\ homeZoneLat = 0
  /\ gpsLat = 0
  /\ gpsValid = FALSE
  /\ isTracking = FALSE
  /\ hasLeftHome = FALSE
  /\ autoTracking = TRUE
  /\ gpxOpen = FALSE
  /\ gpxContent = << >>
  /\ totalDistance = 0
  /\ pointCount = 0
  /\ maxSpeed = 0
  /\ elevationGain = 0
  /\ avgSpeed = "zero"
  /\ lastLat = 0
  /\ lastAlt = 0
  /\ attempt = << >>
  /\ sinceLog = 0
  /\ sinceRole = modeSwitchInterval
  /\ sinceFix = StreamPeriod + 1
  /\ streak = 0
  /\ ex = [ on |-> FALSE, len |-> 0, starts |-> 0, creates |-> 0 ]
  /\ stream = [ on |-> FALSE, len |-> 0, appends |-> 0 ]
  /\ stay = "free"
  /\ gpsTime = 0
  /\ files = {Filename(0)}
  /\ ev = NewEv("boot")

Init ==
  /\ DeviceInit
  /\ probe = NoProbe

\* The loop task is at the top of loop(), inside no handler.
LoopIdle_Always == TRUE

\* The loop task is not inside the wait of a connect attempt: loop() is the
\* only caller of the GPS decoder, of the position update and of
\* server.handleClient(), and the wait is a while loop inside a handler.
LoopIdle == attempt = << >>

Setup(mountOk, ok, dur) ==
  /\ pc = "boot"
  /\ LoopIdle
  /\ Assign(setup(Cur, mountOk, ok, dur))

\* Loop iterations that evaluate the connectivity with the last fix.
Tick_Evaluates(ms) ==
  /\ pc # "boot"
  /\ LoopIdle
  /\ Assign([updateWiFiMode(delay([Cur EXCEPT !.ev = NewEv("tick")], ms),
                            getDistance(gpsLat, homeZoneLat),
                            FALSE, connectTimeout)
               EXCEPT !.ev.dwell = FALSE])

\* Loop iterations with no position update and no request: time passes.
Tick(ms) ==
  /\ pc # "boot"
  /\ LoopIdle
  /\ Assign(delay([Cur EXCEPT !.ev = NewEv("tick")], ms))

\* A loop iteration with gps.location.isUpdated().
LoopUpdate(currentLat, currentAlt, currentSpeed, ok, dur, fsOk) ==
  /\ pc = "running"
  /\ LoopIdle
  /\ \E s \in {loopUpdate(Cur, currentLat, currentAlt, currentSpeed, ok, dur, fsOk)} :
        /\ s.pointCount <= MaxPoints
        /\ s.elevationGain <= MaxGain
        /\ Assign(s)

\* In station mode the link to the network is lost or regained.
LinkChange ==
  /\ pc = "running"
  /\ LoopIdle
  /\ radio = "STA"
  /\ Assign([Cur EXCEPT !.ev = NewEv("link"), !.linkUp = ~@])

\* server.handleClient() runs only if (wifiConnected), and a request reaches
\* the device over its access point or over its link to the network.
CanServe ==
  /\ pc = "running"
  /\ LoopIdle
  /\ wifiConnected
  /\ radio = "AP" \/ (radio = "STA" /\ linkUp)

ToggleTracking(fsOk) ==
  /\ CanServe
  /\ Assign(toggleTracking(Cur, fsOk))

ToggleAutoTrack ==
  /\ CanServe
  /\ Assign(toggleAutoTrack(Cur))

SaveWifi(ssid, pass, ok, dur) ==
  /\ CanServe
  /\ Assign(saveWifi(Cur, ssid, pass, ok, dur))

SetHome ==
  /\ CanServe
  /\ Assign(setHome(Cur))

\* A power cycle and the setup that follows it.
Restart(mountOk, ok, dur) ==
  /\ pc # "boot"
  /\ LoopIdle
  /\ Assign([setup(powerOn(Cur), mountOk, ok, dur) EXCEPT !.ev.kind = "restart"])

Next ==
  \/ \E mountOk \in BOOLEAN, ok \in BOOLEAN, dur \in ConnectDurations :
       Setup(mountOk, ok, dur)
  \/ \E ms \in Steps : Tick(ms)
  \/ LinkChange
  \/ \E p \in Positions, a \in Altitudes, v \in Speeds,
        ok \in BOOLEAN, dur \in ConnectDurations, fsOk \in BOOLEAN :
       LoopUpdate(p, a, v, ok, dur, fsOk)
  \/ \E fsOk \in BOOLEAN : ToggleTracking(fsOk)
  \/ ToggleAutoTrack
  \/ \E ssid \in Ssids, pass \in Passwords, ok \in BOOLEAN, dur \in ConnectDurations :
       SaveWifi(ssid, pass, ok, dur)

Spec == Init /\ [][Next]_vars

\* The connectivity scenario.  It begins as Spec does; the device is carried
\* about, its link comes and goes and it is given credentials, and no tracking
\* command is sent: sessions begin and end at the geofence alone.
NextRoles ==
  \/ \E mountOk \in BOOLEAN, ok \in BOOLEAN, dur \in ConnectDurations :
       Setup(mountOk, ok, dur)
  \/ \E ms \in Steps : Tick(ms)
  \/ LinkChange
  \/ \E p \in Positions, a \in Altitudes, v \in Speeds,
        ok \in BOOLEAN, dur \in ConnectDurations, fsOk \in BOOLEAN :
       LoopUpdate(p, a, v, ok, dur, fsOk)
  \/ \E ssid \in Ssids, pass \in Passwords, ok \in BOOLEAN, dur \in ConnectDurations :
       SaveWifi(ssid, pass, ok, dur)

SpecRoles == Init /\ [][NextRoles]_vars

\* The fine-grained scenario.  It begins in a state the device reaches by
\* itself (under Spec, TLC reaches InitFine): no stored credentials, standalone since more
\* than the dwell interval, Idle, no fix yet.  Time passes StreamPeriod ms
\* at a time and the fixes lie StreamMove m apart outside the geofence.
InitFine ==
  /\ pc = "running"
  /\ prefs = [ssid |-> "", pass |-> "", homeLat |-> 0]
  /\ wifiSsid = ""
  /\ wifiPassword = ""
  /\ wifiConnected = TRUE
  /\ inAPMode = TRUE
  /\ stationConnectAttempts = 0
  /\ stationConnectFailure = FALSE
  /\ sinceModeSwitch = modeSwitchInterval
  /\ radio = "AP"
  /\ linkUp = FALSE
  /\ homeZoneLat = 0
  /\ gpsLat = 0
  /\ gpsValid = FALSE
  /\ isTracking = FALSE
  /\ hasLeftHome = FALSE
  /\ autoTracking = TRUE
  /\ gpxOpen = FALSE
  /\ gpxContent = << >>
  /\ totalDistance = 0
  /\ pointCount = 0
  /\ maxSpeed = 0
  /\ elevationGain = 0
  /\ avgSpeed = "zero"
  /\ lastLat = 0
  /\ lastAlt = 0
  /\ attempt = << >>
  /\ sinceLog = logInterval + 1
  /\ sinceRole = modeSwitchInterval
  /\ sinceFix = StreamPeriod + 1
  /\ streak = 0
  /\ ex = [ on |-> FALSE, len |-> 0, starts |-> 0, creates |-> 0 ]
  /\ stream = [ on |-> FALSE, len |-> 0, appends |-> 0 ]
  /\ probe = NoProbe
  /\ stay = "free"
  /\ gpsTime = 0
  /\ files = {Filename(0)}
  /\ ev = NewEv("tick")

NextFine ==
  \/ \E ms \in FineSteps : Tick(ms)
  \* Without credentials no attempt is made: its outcome is immaterial.
  \/ \E p \in FinePositions, a \in Altitudes, v \in Speeds, fsOk \in BOOLEAN :
       LoopUpdate(p, a, v, FALSE, connectTimeout, fsOk)
  \/ \E fsOk \in BOOLEAN : ToggleTracking(fsOk)
  \/ ToggleAutoTrack

SpecFine == InitFine /\ [][NextFine]_vars

\* The statistics scenario.  It begins in the same state as the fine-grained
\* one; the fixes vary in altitude and speed.
NextStats ==
  \/ \E ms \in Steps : Tick(ms)
  \/ \E p \in Positions, a \in StatAltitudes, v \in StatSpeeds, fsOk \in BOOLEAN :
       LoopUpdate(p, a, v, FALSE, connectTimeout, fsOk)
  \/ \E fsOk \in BOOLEAN : ToggleTracking(fsOk)
  \/ ToggleAutoTrack

SpecStats == InitFine /\ [][NextStats]_vars

\* The configuration scenario: a device with nothing in its Preferences
\* (as it comes from the factory) is configured by commands and restarted; the file
\* system works and an established link stays up.
InitFactory ==
  /\ Init
  /\ prefs = [ssid |-> "", pass |-> "", homeLat |-> 0]

NextConfig ==
  \/ \E ok \in BOOLEAN, dur \in ConnectDurations : Setup(TRUE, ok, dur)
  \/ \E ms \in Steps : Tick(ms)
  \/ \E p \in ConfigPositions, a \in Altitudes, v \in Speeds,
        ok \in BOOLEAN, dur \in ConnectDurations :
       LoopUpdate(p, a, v, ok, dur, TRUE)
  \/ ToggleTracking(TRUE)
  \/ ToggleAutoTrack
  \/ \E ssid \in Ssids, pass \in Passwords, ok \in BOOLEAN, dur \in ConnectDurations :
       SaveWifi(ssid, pass, ok, dur)
  \/ SetHome
  \/ \E mountOk \in BOOLEAN, ok \in BOOLEAN, dur \in ConnectDurations :
       Restart(mountOk, ok, dur)

SpecConfig == InitFactory /\ [][NextConfig]_vars

\* The scenario of the settled device: a device with stored credentials is
\* carried about and given credentials, its connect attempts succeed or time
\* out; at some time, with credentials present and no lockout, it settles
\* inside or outside the geofence.  From then on every fix lies on that
\* side, no credential update is made and, at home, every attempt succeeds.
\* Time passes, and gps.location.isUpdated() is true again and again.
InitLive ==
  /\ Init
  /\ prefs = [ssid |-> "net", pass |-> "key", homeLat |-> 0]

PlacesNow ==
  IF stay = "home"
  THEN {p \in LivePositions : getDistance(p, homeZoneLat) < triggerRadiusM}
  ELSE IF stay = "away"
  THEN {p \in LivePositions : getDistance(p, homeZoneLat) > triggerRadiusM}
  ELSE LivePositions

OutcomesNow == IF stay = "home" THEN {TRUE} ELSE BOOLEAN

TimePasses == \E ms \in Steps : Tick(ms)

PositionUpdate ==
  \E p \in PlacesNow, ok \in OutcomesNow, dur \in ConnectDurations :
    LoopUpdate(p, 0, 0, ok, dur, TRUE)

Settle(side) ==
  /\ pc = "running"
  /\ LoopIdle
  /\ stay = "free"
  /\ ~CredentialsAbsent(Cur)
  /\ ~stationConnectFailure
  /\ Assign([Cur EXCEPT !.stay = side])

NextLive ==
  \/ \E ok \in BOOLEAN, dur \in ConnectDurations : Setup(TRUE, ok, dur)
  \/ TimePasses
  \/ PositionUpdate
  \/ /\ stay = "free"
     /\ \E ssid \in Ssids, pass \in Passwords, ok \in BOOLEAN,
           dur \in ConnectDurations : SaveWifi(ssid, pass, ok, dur)
  \/ \E side \in {"home", "away"} : Settle(side)

SpecLive ==
  /\ InitLive
  /\ [][NextLive]_vars
  /\ WF_vars(TimePasses)
  /\ WF_vars(PositionUpdate)

\* The scenario of the track files.  It begins in the same state as the
\* fine-grained one; the GPS decodes date and time, which advance.
ClockSentence ==
  /\ pc = "running"
  /\ LoopIdle
  /\ gpsTime < MaxStamp
  /\ Assign([Cur EXCEPT !.ev = NewEv("time"), !.gpsTime = @ + 1])

NextFiles ==
  \/ \E ms \in Steps : Tick(ms)
  \/ \E p \in Positions, a \in Altitudes, v \in Speeds, fsOk \in BOOLEAN :
       LoopUpdate(p, a, v, FALSE, connectTimeout, fsOk)
  \/ \E fsOk \in BOOLEAN : ToggleTracking(fsOk)
  \/ ToggleAutoTrack
  \/ ClockSentence

SpecFiles == InitFine /\ [][NextFiles]_vars

\* The distance scenario: two points of the grid are given, and getDistance
\* is called for them in both orders and for each point with itself.
InitDistance ==
  /\ DeviceInit
  /\ prefs = [ssid |-> "", pass |-> "", homeLat |-> 0]
  /\ probe \in {[NoProbe EXCEPT !.lat1 = la1, !.lon1 = lo1,
                                !.lat2 = la2, !.lon2 = lo2] :
                  la1 \in GridLats, lo1 \in GridLons,
                  la2 \in GridLats, lo2 \in GridLons}

Measure ==
  /\ ~probe.done
  /\ Assign([Cur EXCEPT
       !.probe.done = TRUE,
       !.probe.ab = getDistanceKm(probe.lat1, probe.lon1, probe.lat2, probe.lon2),
       !.probe.ba = getDistanceKm(probe.lat2, probe.lon2, probe.lat1, probe.lon1),
       !.probe.aa = getDistanceKm(probe.lat1, probe.lon1, probe.lat1, probe.lon1),
       !.probe.bb = getDistanceKm(probe.lat2, probe.lon2, probe.lat2, probe.lon2)])

NextDistance == Measure

SpecDistance == InitDistance /\ [][NextDistance]_vars

\* ------------------------------------------------------------ the wait
\* The device as under Spec, with the wait of a connect attempt in steps;
\* the file system works and an established link stays up.
\* final is the state in which the handler ends.
MakesAttempt(final) ==
  \E i \in DOMAIN final.ev.roles : final.ev.roles[i].what = "connect"

\* The handler has run to the while loop of startClientWiFi (state start).
EnterWait(start, final, ok, dur) ==
  Assign([start EXCEPT !.attempt = << [ waited |-> 0,
                                        wait |-> waitTime(ok, dur),
                                        final |-> final ] >>])

\* The position update up to the call of startClientWiFi in the at-home
\* branch of updateWiFiMode.
beforeConnectAtHome(s, currentLat) ==
  LET t == [fixArrives(s, currentLat) EXCEPT !.ev.dwell = TRUE]
  IN IF t.inAPMode
     THEN delay(wifiDisconnect(t), stationSwitchDelay)
     ELSE t

SetupWait(mountOk, ok, dur) ==
  /\ pc = "boot"
  /\ LoopIdle
  /\ LET final == setup(Cur, mountOk, ok, dur)
         s0 == loadConfiguration([Cur EXCEPT !.ev = NewEv("setup")])
     IN IF MakesAttempt(final)
        THEN EnterWait(beginConnect(s0, "setup"), final, ok, dur)
        ELSE Assign(final)

LoopUpdateWait(currentLat, currentAlt, currentSpeed, ok, dur, fsOk) ==
  /\ pc = "running"
  /\ LoopIdle
  /\ LET final == loopUpdate(Cur, currentLat, currentAlt, currentSpeed,
                             ok, dur, fsOk)
     IN /\ final.pointCount <= MaxPoints
        /\ final.elevationGain <= MaxGain
        /\ IF MakesAttempt(final)
           THEN EnterWait(beginConnect(beforeConnectAtHome(Cur, currentLat),
                                       "eval"), final, ok, dur)
           ELSE Assign(final)

SaveWifiWait(ssid, pass, ok, dur) ==
  /\ CanServe
  /\ LET final == saveWifi(Cur, ssid, pass, ok, dur)
     IN IF MakesAttempt(final)
        THEN EnterWait(beginConnect(storeCredentials(Cur, ssid, pass),
                                    "saveWifi"), final, ok, dur)
        ELSE Assign(final)

\* One delay(500) of the while loop of startClientWiFi.
Poll ==
  /\ attempt # << >>
  /\ attempt[1].waited < attempt[1].wait
  /\ Assign(delay([Cur EXCEPT !.attempt[1].waited = @ + connectPollDelay],
                  connectPollDelay))

\* The while loop ends; startClientWiFi and the handler run to their ends.
ConnectReturns ==
  /\ attempt # << >>
  /\ attempt[1].waited >= attempt[1].wait
  /\ Assign(attempt[1].final)

NextWait ==
  \/ \E mountOk \in BOOLEAN, ok \in BOOLEAN, dur \in ConnectDurations :
       SetupWait(mountOk, ok, dur)
  \/ \E ms \in Steps : Tick(ms)
  \/ \E p \in WaitPositions, a \in Altitudes, v \in Speeds,
        ok \in BOOLEAN, dur \in ConnectDurations :
       LoopUpdateWait(p, a, v, ok, dur, TRUE)
  \/ ToggleTracking(TRUE)
  \/ ToggleAutoTrack
  \/ \E ssid \in Ssids, pass \in Passwords, ok \in BOOLEAN, dur \in ConnectDurations :
       SaveWifiWait(ssid, pass, ok, dur)
  \/ Poll
  \/ ConnectReturns

SpecWait == Init /\ [][NextWait]_vars

\* ------------------------------------------------------------ properties
Roles == { ev.roles[i] : i \in DOMAIN ev.roles }
Connects == { r \in Roles : r.what = "connect" }
AtHomeEvaluation(e) ==
  e.kind = "fix" /\ e.dwell /\ e.dist < triggerRadiusM

\* C1: in every reachable state the track file handle is open if and only
\* if the tracking state is Recording.
C1_HandleOpenIffRecording == gpxOpen <=> isTracking

C3_NoConnectWhileLockedOut ==
  \A r \in Connects : ~r.lockout

\* C4: three timed-out attempts in a row, counted from failure count 0 and
\* no lockout, leave lockout set, the role StandaloneMode and the count 0,
\* and an at-home evaluation past the dwell interval then starts no attempt.
C4_ThirdTimeoutLocksOut ==
  /\ [](streak = maxStationConnectAttempts =>
          /\ stationConnectFailure
          /\ inAPMode
          /\ stationConnectAttempts = 0)
  /\ [][(streak = maxStationConnectAttempts /\ AtHomeEvaluation(ev'))
          => ev'.roles = << >>]_vars

C4_Witness ==
  /\ streak = maxStationConnectAttempts
  /\ AtHomeEvaluation(ev)
  /\ ~CredentialsAbsent(Cur)

\* C5: once lockout is set, a step that is no credential update starts no
\* connect attempt and leaves lockout set, at any distance from home.
C5_LockoutUntilCredentialUpdate ==
  [][(stationConnectFailure /\ ev'.kind # "saveWifi")
       => /\ stationConnectFailure'
          /\ \A i \in DOMAIN ev'.roles : ev'.roles[i].what # "connect"]_vars

C5_Witness ==
  /\ stationConnectFailure
  /\ ev.kind = "fix" /\ ev.dwell /\ ev.dist > triggerRadiusM
  /\ ~CredentialsAbsent(Cur)

C7_AutoStopResets ==
  (ev.kind = "fix" /\ ev.auto /\ ev.wasTracking /\ ev.dist < triggerRadiusM)
    => /\ ~isTracking
       /\ ~gpxOpen
       /\ ~hasLeftHome
       /\ pointCount = 0
       /\ totalDistance = 0

C7_Witness ==
  /\ ev.kind = "fix" /\ ev.auto /\ ev.wasTracking /\ ev.dist < triggerRadiusM
  /\ ev.closed

\* C8, first part: a point record is appended only in state Recording, at
\* least logInterval after the last logged point and at least 5 m from it.
AppendIsDebounced ==
  ev.appended => /\ isTracking
                 /\ ev.elapsed >= logInterval
                 /\ ev.inc >= minMoveM

\* C8: ... consequently a stream of fixes 100 ms apart with 1 m displacement
\* each appends no point.
C8_DebounceAndSilentStream ==
  /\ AppendIsDebounced
  /\ stream.on => stream.appends = 0

\* C8, amended: such a stream appends no point until more than logInterval
\* has passed and more than 5 m have accumulated since it began.
C8_DebounceAndStreamDelay ==
  /\ AppendIsDebounced
  /\ (stream.on /\ stream.appends > 0)
       => /\ stream.len * StreamPeriod > logInterval
          /\ stream.len * StreamMove > minMoveM

C8_Witness == stream.on /\ ev.appended /\ stream.appends = 1

\* C9: if creating the track file fails when a session start is triggered,
\* the tracking state remains Idle.
C9_FailedCreateStaysIdle ==
  ev.created = "failed" => ~isTracking

C11_NoAutoTransitionsWhenOff ==
  [][~autoTracking =>
       /\ ev'.kind = "fix" => /\ isTracking' = isTracking
                              /\ hasLeftHome' = hasLeftHome
                              /\ gpxOpen' = gpxOpen
                              /\ ev'.starts = 0
                              /\ ev'.created = "no"
                              /\ ~ev'.closed
       /\ (\/ isTracking' # isTracking
           \/ hasLeftHome' # hasLeftHome
           \/ gpxOpen' # gpxOpen) => ev'.kind = "toggleTracking"]_vars

C11_Witness ==
  /\ ev.kind = "fix" /\ ~ev.auto
  /\ ev.wasTracking /\ ev.dist < triggerRadiusM
  /\ isTracking /\ gpxOpen

\* C12: toggleTracking always flips the tracking state, from Idle to
\* Recording with a new track file opened and from Recording to Idle with
\* the file closed, for either value of autoTracking and at any distance.
C12_ToggleAlwaysFlips ==
  ev.kind = "toggleTracking" =>
    /\ isTracking = ~ev.wasTracking
    /\ isTracking => (ev.created = "ok" /\ gpxOpen)
    /\ ~isTracking => ~gpxOpen

\* C13: at every transition into Recording and into Idle, automatic or
\* manual, all session counters are reset: total distance, max speed,
\* average speed and elevation gain are zero, and the point count holds no
\* more than the fix that opens a session.
C13_CountersResetAtTransitions ==
  (ev.kind \in {"fix", "toggleTracking"} /\ isTracking # ev.wasTracking)
    => /\ pointCount = (IF isTracking THEN 1 ELSE 0)
       /\ totalDistance = 0
       /\ maxSpeed = 0
       /\ avgSpeed = "zero"
       /\ elevationGain = 0

\* C14: after a cycle evaluation made with the dwell interval elapsed,
\* credentials present and distanceFromHome not below the radius, the role
\* is StandaloneMode and the evaluation started no connect attempt, with
\* lockout set or not.
C14_AwayMeansStandalone ==
  (ev.kind = "fix" /\ ev.dwell /\ ~CredentialsAbsent(Cur)
     /\ ev.dist >= triggerRadiusM)
    => /\ inAPMode
       /\ Connects = {}

C14_Witness ==
  /\ ev.kind = "fix" /\ ev.dwell /\ ~CredentialsAbsent(Cur)
  /\ ev.dist = triggerRadiusM
  /\ \E r \in Roles : r.what = "ap" /\ r.by = "eval"
  /\ ~stationConnectFailure

\* C15: between the start and the end of a connect attempt no position
\* update is processed, no tracking transition or point append takes place
\* and no command is handled: a step taken during the wait is a step of
\* the wait, or the return of the attempt when the wait is over.
C15_NothingRunsDuringAttempt ==
  [][attempt # << >> =>
       \/ /\ attempt' # << >>
          /\ attempt'[1].waited = attempt[1].waited + connectPollDelay
          /\ ev' = ev
          /\ UNCHANGED << gpsLat, gpsValid, isTracking, hasLeftHome, gpxOpen,
                          pointCount, totalDistance, lastLat, autoTracking,
                          wifiSsid, wifiPassword, prefs >>
       \/ /\ attempt' = << >>
          /\ attempt[1].waited >= attempt[1].wait
          /\ ev'.kind = ev.kind]_vars

C15_Witness ==
  /\ attempt # << >>
  /\ attempt[1].waited > connectPollDelay
  /\ attempt[1].waited < attempt[1].wait
  /\ ev.kind = "fix"
  /\ isTracking

\* Model sanity: what the handler has done when its wait begins is the
\* beginning of what it has done when it ends.
WaitIsPartOfHandler ==
  attempt # << >> =>
    /\ Len(ev.roles) >= 1
    /\ ev.roles[Len(ev.roles)].what = "connect"
    /\ ev.roles = SubSeq(attempt[1].final.ev.roles, 1, Len(ev.roles))
    /\ ev.kind = attempt[1].final.ev.kind

\* C16: after startup, in every reachable state the device can be reached
\* for management: it is connected to the configured network as a client or
\* its access point is active, and commands are being served.
C16_AlwaysReachable == pc = "running" => CanServe

\* C17: a track file closed by a session end consists of the header, then
\* zero or more complete point records, then the closing tags once; while
\* the file is open it holds the header and point records only.
GpxPoints(n) == [i \in 1 .. n |-> GpxPoint]

C17_ClosedFileWellFormed ==
  /\ ev.closed =>
       \E n \in 0 .. MaxPoints :
         ev.file = GpxHeader \o GpxPoints(n) \o GpxClosingTags
  /\ gpxOpen =>
       \E n \in 0 .. MaxPoints : gpxContent = GpxHeader \o GpxPoints(n)
  /\ ~gpxOpen => gpxContent = << >>

C17_Witness ==
  /\ ev.closed
  /\ ev.file = GpxHeader \o GpxPoints(1) \o GpxClosingTags

\* C18: a credential update carrying both parameters acts at once, whatever
\* the dwell timer and the lockout: it stores the new credentials and then
\* starts exactly one connect attempt if both are non-empty, and otherwise
\* forces StandaloneMode.
C18_CredentialUpdateActsAtOnce ==
  ev.kind = "saveWifi" =>
    /\ prefs.ssid = wifiSsid /\ prefs.pass = wifiPassword
    /\ Len(ev.roles) >= 1 /\ ev.roles[1].by = "saveWifi"
    /\ IF CredentialsAbsent(Cur)
       THEN /\ Len(ev.roles) = 1
            /\ ev.roles[1].what = "ap"
            /\ inAPMode /\ radio = "AP"
       ELSE /\ ev.roles[1].what = "connect"
            /\ \A i \in DOMAIN ev.roles :
                 ev.roles[i].what = "connect" => i = 1

C18_Witness ==
  /\ ev.kind = "saveWifi"
  /\ ev.roles # << >>
  /\ ev.roles[1].what = "connect"
  /\ ev.roles[1].lockout
  /\ ev.roles[1].gap < modeSwitchInterval

\* C19: lockout goes from set to unset exactly on a successful connect
\* attempt or on a credential update: each of the two leaves lockout
\* cleared, and no other step clears it.
C19_LockoutClearedByTwoEvents ==
  /\ []((ev.kind = "saveWifi" \/ (Connects # {} /\ linkUp))
          => ~stationConnectFailure)
  /\ [][(stationConnectFailure /\ ~stationConnectFailure')
          => (ev'.kind = "saveWifi" \/ (ev'.roles # << >> /\ linkUp'))]_vars

\* C20: session begin and session end alternate, beginning with a begin:
\* a session begins only in Idle and a track file is created only while
\* none is open; closing tags are written only to the open file of a
\* session in Recording, which that step ends.
C20_BeginAndEndAlternate ==
  [][/\ ev'.starts > 0 => (~isTracking /\ ev'.starts = 1 /\ isTracking')
     /\ ev'.created # "no" => (~gpxOpen /\ ev'.starts = 1)
     /\ ev'.closed => (gpxOpen /\ isTracking /\ ~isTracking' /\ ~gpxOpen')
     /\ (isTracking /\ isTracking') => (ev'.starts = 0 /\ ~ev'.closed)]_vars

C20_Witness ==
  /\ ev.kind = "toggleTracking"
  /\ ev.auto
  /\ ev.closed
  /\ Len(ev.file) > Len(GpxHeader) + Len(GpxClosingTags)

\* C21: setHome with a valid fix sets the home location to that fix and
\* persists it; with no valid fix it leaves the home location and the
\* persisted values as they are; in both cases the command changes neither
\* the tracking state nor the connectivity state.
C21_SetHomeSetsHomeOnly ==
  [][ev'.kind = "setHome" =>
       /\ IF gpsValid
          THEN /\ homeZoneLat' = gpsLat
               /\ prefs' = [prefs EXCEPT !.homeLat = gpsLat]
          ELSE /\ homeZoneLat' = homeZoneLat
               /\ prefs' = prefs
       /\ UNCHANGED << isTracking, hasLeftHome, autoTracking, gpxOpen,
                       gpxContent, pointCount, totalDistance, lastLat >>
       /\ UNCHANGED << wifiSsid, wifiPassword, wifiConnected, inAPMode,
                       radio, linkUp, stationConnectAttempts,
                       stationConnectFailure, sinceModeSwitch >>]_vars

C21_Witness ==
  /\ ev.kind = "setHome"
  /\ homeZoneLat = 150
  /\ prefs.homeLat = 150
  /\ isTracking

\* Model sanity: a power cycle leaves the device as it was before its first
\* setup, but for its Preferences.
PowerOnIsInit ==
  pc = "boot" => Cur = [powerOn(Cur) EXCEPT !.ev = NewEv("boot")]

\* C22: after a restart the home location, the credentials and the
\* auto-tracking flag are equal to the values last set by command before
\* the restart.
C22_ConfigurationSurvivesRestart ==
  [][ev'.kind = "restart" =>
       /\ homeZoneLat' = homeZoneLat
       /\ wifiSsid' = wifiSsid
       /\ wifiPassword' = wifiPassword
       /\ autoTracking' = autoTracking]_vars

\* C22, amended: after a restart the home location and the credentials are
\* equal to the values last set by command before the restart; the
\* auto-tracking flag is true, whatever it was set to.
C22_HomeAndCredentialsSurviveRestart ==
  [][ev'.kind = "restart" =>
       /\ homeZoneLat' = homeZoneLat
       /\ wifiSsid' = wifiSsid
       /\ wifiPassword' = wifiPassword
       /\ autoTracking']_vars

C22_Witness ==
  /\ ev.kind = "restart"
  /\ pc = "running"
  /\ homeZoneLat = 150
  /\ wifiSsid = "net"
  /\ wifiPassword = "key"

\* C23: position updates keep arriving, credentials are present and there is
\* no lockout.  A device that stays inside the geofence and whose connect
\* attempts succeed is eventually in ClientMode with connected set; a device
\* that stays outside the geofence is eventually in StandaloneMode.
C23_SettledRoleIsReached ==
  /\ (stay = "home") ~> (~inAPMode /\ wifiConnected)
  /\ (stay = "away") ~> inAPMode

\* Settled at home in StandaloneMode, the device has made its attempt at a
\* position update and is a client.
C23_Witness ==
  /\ stay = "home"
  /\ ev.kind = "fix"
  /\ \E i \in DOMAIN ev.roles : ev.roles[i].what = "connect"
  /\ ~inAPMode
  /\ wifiConnected

\* Settled outside the geofence as a client, the device has become
\* standalone at a position update.
StandaloneAfterSettlingAway ==
  /\ stay = "away"
  /\ ev.kind = "fix"
  /\ \E i \in DOMAIN ev.roles : ev.roles[i].what = "ap"
  /\ inAPMode

\* C24: for all coordinate pairs, the distance from a point to itself is 0
\* and the distance from A to B equals the distance from B to A.
C24_DistanceZeroAndSymmetric ==
  probe.done => /\ probe.aa = 0
                /\ probe.bb = 0
                /\ probe.ab = probe.ba

\* Two points that differ in latitude and in longitude, a quarter of the
\* globe or more apart.
C24_Witness ==
  /\ probe.done
  /\ probe.lat1 # probe.lat2
  /\ probe.lon1 # probe.lon2
  /\ probe.ab >= 10000
  /\ probe.ab = probe.ba

\* C25: with autoTracking true, after every cycle that processes a position
\* update with distanceFromHome different from the radius, the state is
\* Recording exactly when distanceFromHome > radius, whatever manual toggles
\* came before.
C25_AutoTrackingDecidesAtUpdate ==
  (ev.kind = "fix" /\ ev.auto /\ ev.dist # triggerRadiusM)
    => (isTracking <=> ev.dist > triggerRadiusM)

\* A session found Recording by an update inside the geofence, no point
\* logged in it, is stopped by that update.
C25_Witness ==
  /\ ev.kind = "fix" /\ ev.auto
  /\ ev.dist < triggerRadiusM
  /\ ev.wasTracking /\ ~isTracking
  /\ ev.closed /\ ev.file = GpxHeader \o GpxClosingTags

\* C26: the debounce thresholds are inclusive minimums: while Recording, a
\* position update arriving exactly 1000 ms after the last logged point with
\* a displacement of exactly 5 m from it is accepted and a point is appended
\* in that cycle.
C26_ThresholdsInclusive ==
  [][(/\ ev'.kind = "fix"
      /\ isTracking /\ gpxOpen /\ isTracking'
      /\ sinceLog = logInterval
      /\ getDistance(lastLat, gpsLat') = minMoveM)
       => ev'.appended]_vars

\* C26, amended: the debounce thresholds are exclusive: while Recording with
\* the track file open, a position update is accepted, and a point appended
\* in that cycle, exactly when more than 1000 ms have passed since the last
\* logged point and the displacement from it is more than 5 m; an update
\* exactly 1000 ms after it or exactly 5 m from it appends nothing.
C26_ThresholdsExclusive ==
  [][(ev'.kind = "fix" /\ isTracking /\ gpxOpen /\ isTracking')
       => /\ ev'.appended <=> (/\ sinceLog > logInterval
                               /\ getDistance(lastLat, gpsLat') > minMoveM)
          /\ ev'.appended <=> (pointCount' = pointCount + 1)
          /\ ev'.appended <=> (gpxContent' = Append(gpxContent, GpxPoint))
          /\ ~ev'.appended => gpxContent' = gpxContent]_vars

\* An update exactly 1000 ms after the last logged point and exactly 5 m
\* from it has been processed and nothing was appended.
C26_Witness ==
  /\ ev.kind = "fix"
  /\ isTracking /\ gpxOpen
  /\ ~ev.appended
  /\ sinceLog = logInterval
  /\ getDistance(lastLat, gpsLat) = minMoveM

\* C27: the point count reported for a session equals the number of point
\* records appended to that session's track file; the fix that opens a
\* session is counted as a point only if a record for it is written.
C27_PointCountIsRecordCount ==
  gpxOpen => pointCount = Len(gpxContent) - Len(GpxHeader)

\* C28: a successful client connect attempt, from any prior state, leaves
\* role ClientMode, connected set, the failure count 0 and the lockout
\* cleared; a timed-out attempt that does not reach the third failure
\* increases the failure count by exactly 1 and changes neither the lockout
\* flag nor the role flag.
C28_OutcomeOfAttempt ==
  [][(\E i \in DOMAIN ev'.roles : ev'.roles[i].what = "connect")
       => IF linkUp'
          THEN /\ ~inAPMode'
               /\ wifiConnected'
               /\ stationConnectAttempts' = 0
               /\ ~stationConnectFailure'
          ELSE stationConnectAttempts + 1 < maxStationConnectAttempts
                 => /\ stationConnectAttempts' = stationConnectAttempts + 1
                    /\ stationConnectFailure' = stationConnectFailure
                    /\ inAPMode' = inAPMode]_vars

\* An attempt made under lockout with one failure counted has succeeded.
C28_Witness ==
  /\ \E r \in Connects : r.lockout
  /\ linkUp
  /\ ~inAPMode /\ wifiConnected
  /\ stationConnectAttempts = 0 /\ ~stationConnectFailure

\* A second attempt in a row has timed out: two failures are counted and
\* the flags are as they were.
SecondTimeoutCounted ==
  /\ Connects # {}
  /\ ~linkUp
  /\ stationConnectAttempts = 2
  /\ streak = 2

\* C29: a cycle evaluation of the connectivity machine made less than
\* 15000 ms after the last role-affecting action changes nothing: role,
\* connected flag, failure count, lockout and lastRoleSwitch are unchanged,
\* whatever the distance from home and the credentials.
C29_NoOpWithinDwell ==
  [][(ev'.kind = "fix" /\ sinceRole < modeSwitchInterval)
       => /\ ev'.roles = << >>
          /\ ~ev'.dwell
          /\ UNCHANGED << inAPMode, wifiConnected, radio, linkUp,
                          stationConnectAttempts, stationConnectFailure,
                          sinceModeSwitch, sinceRole >>]_vars

\* Within the dwell interval a client with credentials has met an update
\* outside the geofence and is a client still.
C29_Witness ==
  /\ ev.kind = "fix" /\ ~ev.dwell
  /\ 0 < sinceRole /\ sinceRole < modeSwitchInterval
  /\ ev.dist > triggerRadiusM
  /\ ~CredentialsAbsent(Cur)
  /\ ~inAPMode /\ wifiConnected

\* C30: on each accepted point, total distance increases by exactly the
\* displacement from the last logged point, max speed becomes the maximum of
\* its previous value and the current speed, and elevation gain increases by
\* max(0, current altitude minus last logged altitude); none of the three
\* ever decreases while the state is Recording.
C30_StatisticsOfAcceptedPoint ==
  [][/\ (ev'.kind = "fix" /\ ev'.inc > 0)
          => /\ totalDistance' = totalDistance + getDistance(lastLat, gpsLat')
             /\ maxSpeed' = (IF ev'.speed > maxSpeed THEN ev'.speed ELSE maxSpeed)
             /\ elevationGain' = elevationGain
                                   + (IF lastAlt' > lastAlt
                                      THEN lastAlt' - lastAlt ELSE 0)
     /\ (isTracking /\ isTracking')
          => /\ totalDistance' >= totalDistance
             /\ maxSpeed' >= maxSpeed
             /\ elevationGain' >= elevationGain]_vars

\* A point has been accepted on a descent and at less than the maximum
\* speed, after a climb.
C30_Witness ==
  /\ ev.kind = "fix" /\ ev.inc > 0 /\ isTracking
  /\ totalDistance > ev.inc
  /\ elevationGain = 1 /\ lastAlt = 0
  /\ maxSpeed = 2 /\ ev.speed = 1

\* C31: the displacement test and the distance accumulated for the first
\* point of a session are measured from a position and a time that belong
\* to that session (the fix and time at session start), for sessions started
\* automatically and by manual toggle alike: a step that starts a session
\* leaves the last logged position at the current fix and the last log time
\* at now.
C31_SessionStartSetsReference ==
  [][(/\ ev'.kind \in {"fix", "toggleTracking"}
      /\ ev'.starts > 0
      /\ gpsValid')
       => /\ lastLat' = gpsLat'
          /\ sinceLog' = 0]_vars

\* C32: whenever the role is reported as StandaloneMode, the standalone
\* access point is the active radio mode; a connect attempt launched from
\* StandaloneMode that times out does not leave the device flagged
\* StandaloneMode with the radio in client mode.
C32_StandaloneFlagMeansAccessPoint ==
  inAPMode => radio = "AP"

\* C33: when no timestamp is available at session start, the session gets a
\* placeholder filename that tolerates collisions: beginning a new session
\* never truncates or overwrites the track file written by an earlier
\* session.  Here the earlier session is the one that the step before has
\* closed, begun with no time decoded as well.
C33_PlaceholderNameIsFresh ==
  [][(ev.closed /\ ev'.created = "ok" /\ gpsTime = 0)
       => Filename(gpsTime) \notin files]_vars

\* C34: a point record that cannot be written (no usable file handle) does
\* not end the session: the state stays Recording, hasLeftHome stays set and
\* later position updates continue to be processed.
C34_UnwrittenPointKeepsSession ==
  [][(ev'.kind = "fix" /\ ev'.inc > 0 /\ ~gpxOpen)
       => /\ ~ev'.appended
          /\ isTracking'
          /\ hasLeftHome'
          /\ pc' = "running"
          /\ pointCount' = pointCount + 1]_vars

\* With no handle, a second update in a row has been accepted as a point of
\* the session.
C34_Witness ==
  /\ ev.kind = "fix" /\ ev.inc > 0
  /\ ~ev.appended /\ ~gpxOpen
  /\ isTracking /\ hasLeftHome
  /\ pointCount = 3

\* C35: in every reachable state hasLeftHome is true exactly when the
\* tracking state is Recording: every automatic or manual start sets both
\* and every automatic or manual stop clears both.
C35_HasLeftHomeIffRecording ==
  hasLeftHome <=> isTracking

\* A session has been stopped, by an update inside the geofence or by hand,
\* and both flags are clear.
C35_Witness ==
  /\ ev.wasTracking /\ ev.closed
  /\ ~isTracking /\ ~hasLeftHome
  /\ ev.kind \in {"fix", "toggleTracking"}

\* C36: whenever the tracking state is Idle, point count and total distance
\* are both zero - initially, after an automatic stop and after a manual
\* stop.
C36_IdleMeansZeroCounters ==
  ~isTracking => (pointCount = 0 /\ totalDistance = 0)

\* A session in which a point was logged has been stopped and the counters
\* are zero.
C36_Witness ==
  /\ ev.wasTracking /\ ~isTracking
  /\ ev.closed /\ Len(ev.file) > Len(GpxHeader) + Len(GpxClosingTags)
  /\ pointCount = 0 /\ totalDistance = 0

\* C37: whenever failure-lockout is set, the role is StandaloneMode: lockout
\* is only ever set together with a switch to StandaloneMode, and the role
\* can only leave StandaloneMode through a successful connect, which clears
\* lockout.
C37_LockoutMeansStandalone ==
  /\ [](stationConnectFailure => inAPMode)
  /\ [][(~stationConnectFailure /\ stationConnectFailure')
          => /\ inAPMode'
             /\ \E i \in DOMAIN ev'.roles : /\ ev'.roles[i].what = "ap"
                                             /\ ev'.roles[i].by = "fallback"]_vars
  /\ [][(inAPMode /\ ~inAPMode')
          => /\ linkUp'
             /\ ~stationConnectFailure'
             /\ \E i \in DOMAIN ev'.roles : ev'.roles[i].what = "connect"]_vars

\* The third timeout in a row of a device that was no access point has set
\* the lockout and started the access point.
C37_Witness ==
  /\ stationConnectFailure /\ inAPMode /\ radio = "AP"
  /\ \E r \in Connects : ~r.lockout
  /\ \E r \in Roles : r.what = "ap" /\ r.by = "fallback"

\* C38: the connected flag is never cleared once it has been set: no
\* operation resets it to false, so the at-home rule 'not connected and not
\* failure-locked' fires only while the flag has never been set, before the
\* first successful connect or switch to StandaloneMode.
C38_ConnectedFlagNeverCleared ==
  /\ [][wifiConnected => wifiConnected']_vars
  /\ [][(/\ ~inAPMode
          /\ \E i \in DOMAIN ev'.roles : /\ ev'.roles[i].what = "connect"
                                          /\ ev'.roles[i].by = "eval")
          => ~wifiConnected]_vars

\* A client that has lost its link is evaluated at home, past the dwell
\* interval and without lockout: the flag is set still and no attempt is
\* made.
C38_Witness ==
  /\ AtHomeEvaluation(ev)
  /\ ev.roles = << >>
  /\ ~CredentialsAbsent(Cur)
  /\ ~stationConnectFailure
  /\ wifiConnected /\ ~inAPMode
  /\ radio = "STA" /\ ~linkUp

\* C39: in a loop iteration without a new position update, no tracking
\* transition, no point append and no connectivity evaluation take place:
\* without position updates the role and the failure state change only
\* through a credential update and the tracking state only through a manual
\* toggle.
C39_NothingWithoutUpdate ==
  [][(pc = "running" /\ ev'.kind # "fix")
       => /\ ~ev'.dwell
          /\ ev'.kind # "toggleTracking"
               => /\ UNCHANGED << isTracking, hasLeftHome, gpxOpen, gpxContent,
                                  pointCount, totalDistance, lastLat >>
                  /\ ~ev'.appended /\ ev'.starts = 0 /\ ~ev'.closed
          /\ ev'.kind # "saveWifi"
               => /\ UNCHANGED << inAPMode, wifiConnected, radio,
                                  stationConnectAttempts,
                                  stationConnectFailure >>
                  /\ ev'.roles = << >>]_vars

\* Time has passed, without an update, for a client outside the geofence
\* whose dwell interval is over and for an Idle device outside it under
\* autoTracking: nothing was evaluated.
C39_Witness ==
  /\ ev.kind = "tick"
  /\ sinceModeSwitch = modeSwitchInterval
  /\ gpsValid /\ getDistance(gpsLat, homeZoneLat) > triggerRadiusM
  /\ ~CredentialsAbsent(Cur)
  /\ ~inAPMode
  /\ autoTracking /\ ~isTracking

\* C40: when distanceFromHome is exactly equal to the radius, the tracking
\* machine makes no automatic transition (it neither starts nor stops a
\* session), while the connectivity machine treats the device as away from
\* home and forces StandaloneMode.
C40_EdgeOfGeofence ==
  [][(ev'.kind = "fix" /\ ev'.dist = triggerRadiusM)
       => /\ UNCHANGED << isTracking, hasLeftHome >>
          /\ ev'.starts = 0 /\ ev'.created = "no" /\ ~ev'.closed
          /\ (ev'.dwell /\ ~CredentialsAbsent(Cur))
               => /\ inAPMode'
                  /\ ~inAPMode => radio' = "AP"
                  /\ \A i \in DOMAIN ev'.roles : ev'.roles[i].what = "ap"]_vars

\* On the edge of the geofence, under autoTracking, an Idle client has been
\* made standalone and is Idle still.
C40_Witness ==
  /\ ev.kind = "fix" /\ ev.dist = triggerRadiusM
  /\ ev.auto /\ ~ev.wasTracking /\ ~isTracking
  /\ ev.dwell /\ ~CredentialsAbsent(Cur)
  /\ \E r \in Roles : r.what = "ap" /\ r.by = "eval"
  /\ inAPMode /\ radio = "AP"

====
